---------------------------- MODULE Spec2Model ----------------------------
(***************************************************************************)
(* Model of the instruction catalogue website: the App component           *)
(* (website/src/App.jsx), its localStorage helpers                         *)
(* (website/src/utils/localStorage.js) and the browser objects it talks to *)
(* (window.location, window.history, localStorage).                        *)
(*                                                                         *)
(* Strings are sequences of one-character strings, so that toLowerCase,    *)
(* includes, join, split and encodeURIComponent are computed and not       *)
(* assumed.  A record of instructions.json is stood for by its index in    *)
(* the instructions array (its object identity); 0 stands for null.        *)
(***************************************************************************)
EXTENDS Integers, Sequences, FiniteSets, TLC

(***************************************************************************)
(* Bounds of the model.                                                    *)
(***************************************************************************)
NumRecords == 23      \* records of the catalogue used by the application runs
MaxCount == 1         \* a usage counter is not driven beyond this value
MaxHistory == 2       \* entries the browser keeps in the session history
MaxCorpus == 2        \* records of the catalogues the filter alone is run on
MaxBody == 4          \* characters of the Markdown body the indexer scans
MaxEntries == 3       \* directory entries the indexer walks over
MaxReferences == 3    \* reference links of references.json
MaxPending == 2       \* debounce timers that wait at the same time
MaxSelects == 3       \* records opened in two tabs together

(***************************************************************************)
(* Strings.                                                                *)
(***************************************************************************)
Range(s) == {s[i] : i \in 1..Len(s)}

NoDuplicates(s) == \A i, j \in 1..Len(s) : s[i] = s[j] => i = j

\* String.prototype.toLowerCase on one character of the alphabet used here.
LowerChar(c) ==
    CASE c = "A" -> "a"
      [] c = "B" -> "b"
      [] c = "G" -> "g"
      [] c = "O" -> "o"
      [] OTHER -> c

ToLowerCase(s) == [i \in 1..Len(s) |-> LowerChar(s[i])]

\* String.prototype.includes: q occurs in s as a contiguous substring.
Includes(s, q) ==
    \E i \in 1..(Len(s) - Len(q) + 1) : SubSeq(s, i, i + Len(q) - 1) = q

\* Array.prototype.includes
ArrayIncludes(arr, x) == \E i \in 1..Len(arr) : arr[i] = x

\* The sentinel tag 'favorites'.
Favorites == <<"f", "a", "v", "o", "r", "i", "t", "e", "s">>


(***************************************************************************)
(* The catalogue (data/instructions.json): the records the indexer emits.  *)
(* Record i of the application runs; filenames are pairwise different.     *)
(***************************************************************************)
Digit(n) == <<"0", "1", "2", "3", "4", "5", "6", "7", "8", "9">>[n + 1]

FileName(i) == <<"x", Digit(i \div 10), Digit(i % 10), ".", "m", "d">>

CategoryOf(i) == IF i <= 21 THEN <<"b", "e">> ELSE <<"o", "p", "s">>

Instruction(i) ==
    [ filename      |-> FileName(i),
      category      |-> CategoryOf(i),
      subcategories |-> IF i = 1 THEN << <<"g", "o">> >> ELSE << >>,
      content       |-> IF i % 3 = 0 THEN <<"G", "O">> ELSE <<"a">>,
      tags          |-> IF i % 2 = 0 THEN <<CategoryOf(i), <<"r", "e">> >>
                                     ELSE <<CategoryOf(i)>> ]

instructions == [i \in 1..NumRecords |-> Instruction(i)]

PAGE_SIZE == 20

\* Array.prototype.slice(from, to) with 0-based, end-exclusive indices.
Slice(arr, from, to) ==
    LET lo == IF from > Len(arr) THEN Len(arr) ELSE from
        hi == IF to > Len(arr) THEN Len(arr) ELSE to
    IN  IF hi <= lo THEN << >> ELSE SubSeq(arr, lo + 1, hi)

\* The indices 1..n of an array as a sequence, in array order.
Indices(arr) == [i \in 1..Len(arr) |-> i]

(***************************************************************************)
(* filterInstructions: the callback given to instructions.filter, then the *)
(* filter itself.  The result is the sequence of the indices kept.         *)
(***************************************************************************)
\* Mutant: the query is compared as typed, not lower-cased.
MatchesSearch_CaseSensitive(instruction, query) ==
    \/ Includes(ToLowerCase(instruction.category), query)
    \/ \E k \in 1..Len(instruction.subcategories) :
          Includes(ToLowerCase(instruction.subcategories[k]), query)
    \/ Includes(ToLowerCase(instruction.content), query)

MatchesSearch(instruction, query) ==
    \/ Includes(ToLowerCase(instruction.category), ToLowerCase(query))
    \/ \E k \in 1..Len(instruction.subcategories) :
          Includes(ToLowerCase(instruction.subcategories[k]), ToLowerCase(query))
    \/ Includes(ToLowerCase(instruction.content), ToLowerCase(query))

MatchesTags(instruction, tags) ==
    \/ Len(tags) = 0
    \/ \A k \in 1..Len(tags) :
          tags[k] = Favorites \/ ArrayIncludes(instruction.tags, tags[k])

FilterKeeps(instruction, query, tags, favorites) ==
    IF ArrayIncludes(tags, Favorites) /\ ~ArrayIncludes(favorites, instruction.filename)
    THEN FALSE
    ELSE MatchesSearch(instruction, query) /\ MatchesTags(instruction, tags)

filterInstructions(records, query, tags, favorites) ==
    SelectSeq(Indices(records),
              LAMBDA i : FilterKeeps(records[i], query, tags, favorites))

\* groupedInstructions[category]: the records of a category, in array order
\* (<< >> stands for the undefined of a category no record has).
groupedInstructions(category) ==
    SelectSeq(Indices(instructions), LAMBDA i : instructions[i].category = category)

(***************************************************************************)
(* State.                                                                  *)
(***************************************************************************)
VARIABLES
    usageStats,            \* useState(storedState.instructionUsageStats)
    toolUsageStats,        \* useState(storedState.toolUsageStats)
    favoriteInstructions,  \* useState(storedState.favoriteInstructions)
    searchQuery,           \* useState('')
    selectedTags,          \* useState([])
    visibleInstructions,   \* useState([])
    hasMore,               \* useState(true)
    page,                  \* useState(1)
    selectedInstruction,   \* useState(null): 0, or the record shown in the modal
    selectedCategory,      \* useState(null): << >>, or the category name
    entries,               \* window.history: the URLs of the session history
    index,                 \* window.history: the current entry (window.location)
    storage,               \* localStorage: each JSON key's value parsed, the
                           \* darkMode item as its text, and the keys whose
                           \* text is not JSON
    isDarkMode,            \* useState(storedState.darkMode)
    prefersDark,           \* matchMedia('(prefers-color-scheme: dark)').matches
    error,                 \* an error thrown while rendering or in an effect
                           \* took the application down (no error boundary)
    event,                 \* the event handled last: a page load, a popstate,
                           \* or a handler called with a record (0: with none)
    call                   \* a library function called on its own: arguments, result

vars == <<usageStats, toolUsageStats, favoriteInstructions, searchQuery,
          selectedTags, visibleInstructions, hasMore, page, selectedInstruction,
          selectedCategory, entries, index, storage, isDarkMode, prefersDark,
          error, event, call>>

\* The component's state and the browser around it, as one value.
World ==
    [ usageStats           |-> usageStats,
      toolUsageStats       |-> toolUsageStats,
      favoriteInstructions |-> favoriteInstructions,
      searchQuery          |-> searchQuery,
      selectedTags         |-> selectedTags,
      visibleInstructions  |-> visibleInstructions,
      hasMore              |-> hasMore,
      page                 |-> page,
      selectedInstruction  |-> selectedInstruction,
      selectedCategory     |-> selectedCategory,
      entries              |-> entries,
      index                |-> index,
      storage              |-> storage,
      isDarkMode           |-> isDarkMode,
      prefersDark          |-> prefersDark,
      error                |-> error ]

Commits(w) ==
    /\ usageStats' = w.usageStats
    /\ toolUsageStats' = w.toolUsageStats
    /\ favoriteInstructions' = w.favoriteInstructions
    /\ searchQuery' = w.searchQuery
    /\ selectedTags' = w.selectedTags
    /\ visibleInstructions' = w.visibleInstructions
    /\ hasMore' = w.hasMore
    /\ page' = w.page
    /\ selectedInstruction' = w.selectedInstruction
    /\ selectedCategory' = w.selectedCategory
    /\ entries' = w.entries
    /\ index' = w.index
    /\ storage' = w.storage
    /\ isDarkMode' = w.isDarkMode
    /\ prefersDark' = w.prefersDark
    /\ error' = w.error

Settles(w) == Commits(w) /\ UNCHANGED call

LoadEvent(url) == [kind |-> "load", url |-> <<url>>, record |-> 0]
UserEvent(handler, i) == [kind |-> handler, url |-> << >>, record |-> i]
PopStateEvent == [kind |-> "popstate", url |-> << >>, record |-> 0]

\* The world after a handler has run, called with record i (0: with none).
\* Nothing is rendered, and no handler can be called, once the application
\* went down.
Becomes(w, handler, i) == ~error /\ Settles(w) /\ event' = UserEvent(handler, i)

(***************************************************************************)
(* window.location and window.history.  A URL is its query parameters,     *)
(* each << >> when absent and <<value>> when present, value being what     *)
(* URLSearchParams.get returns.  Two URLs are the same string exactly when *)
(* their parameters are equal.                                             *)
(***************************************************************************)
Url(instruction, tags, category) ==
    [instruction |-> instruction, tags |-> tags, category |-> category]

Location(w) == w.entries[w.index]

\* URLSearchParams.get, with '' for null (the code only tests truthiness).
Get(param) == IF param = << >> THEN << >> ELSE param[1]

\* history.pushState: the entries after the current one are dropped, and
\* the oldest entry is when the browser's session history is full.
PushState(w, url) ==
    LET pushed == Append(SubSeq(w.entries, 1, w.index), url)
        kept == IF Len(pushed) > MaxHistory THEN Tail(pushed) ELSE pushed
    IN  [w EXCEPT !.entries = kept, !.index = Len(kept)]

\* An object used as a map: the count under a key, undefined || 0 being 0.
\* (The keys are file names ending in .md and tool names; ToolCandidates
\* deals with the tool names an object inherits.)
Count(stats, key) == IF key \in DOMAIN stats THEN stats[key] ELSE 0

\* {...stats, [key]: value}
Put(stats, key, value) ==
    [k \in DOMAIN stats \cup {key} |-> IF k = key THEN value ELSE stats[k]]

(***************************************************************************)
(* String conversions used on the way to and from the URL.                 *)
(***************************************************************************)
\* Characters encodeURIComponent leaves as they are (of the alphabet used).
Unreserved ==
    {"a", "b", "e", "f", "g", "o", "p", "r", "s", "x", "z", "d", "m", "i", "t", "v",
     "A", "B", "G", "O", ".",
     "0", "1", "2", "3", "4", "5", "6", "7", "8", "9"}

EscapeOf(c) ==
    CASE c = "," -> <<"%", "2", "C">>
      [] c = "%" -> <<"%", "2", "5">>
      [] OTHER -> <<c>>

RECURSIVE encodeURIComponent(_)
encodeURIComponent(s) ==
    IF s = << >> THEN << >>
    ELSE (IF s[1] \in Unreserved THEN <<s[1]>> ELSE EscapeOf(s[1]))
         \o encodeURIComponent(Tail(s))

\* decodeURIComponent throws URIError: a % that does not start an escape.
Malformed(s) ==
    \E i \in 1..Len(s) :
        /\ s[i] = "%"
        /\ ~(i + 2 <= Len(s)
             /\ SubSeq(s, i + 1, i + 2) \in { <<"2", "C">>, <<"2", "5">> })

\* decodeURIComponent of a well-formed string (every % starts an escape).
RECURSIVE decodeURIComponent(_)
decodeURIComponent(s) ==
    IF s = << >> THEN << >>
    ELSE IF s[1] = "%" /\ Len(s) >= 3 /\ SubSeq(s, 2, 3) = <<"2", "C">>
         THEN <<",">> \o decodeURIComponent(SubSeq(s, 4, Len(s)))
    ELSE IF s[1] = "%" /\ Len(s) >= 3 /\ SubSeq(s, 2, 3) = <<"2", "5">>
         THEN <<"%">> \o decodeURIComponent(SubSeq(s, 4, Len(s)))
    ELSE <<s[1]>> \o decodeURIComponent(Tail(s))

\* Array.prototype.join(',')
RECURSIVE Join(_)
Join(arr) ==
    IF Len(arr) = 0 THEN << >>
    ELSE IF Len(arr) = 1 THEN arr[1]
    ELSE arr[1] \o <<",">> \o Join(Tail(arr))

\* String.prototype.split(','): the pieces between the commas.
RECURSIVE SplitFrom(_, _)
SplitFrom(s, piece) ==
    IF s = << >> THEN <<piece>>
    ELSE IF s[1] = "," THEN <<piece>> \o SplitFrom(Tail(s), << >>)
    ELSE SplitFrom(Tail(s), Append(piece, s[1]))

Split(s) == SplitFrom(s, << >>)

\* instructions.find(p => p.filename === name): the first such record, or 0.
Find(name) ==
    LET hits == {i \in 1..Len(instructions) : instructions[i].filename = name}
    IN  IF hits = {} THEN 0 ELSE CHOOSE i \in hits : \A j \in hits : i <= j

(***************************************************************************)
(* The effects of App.  Each takes the state r of the render it was        *)
(* created in and the world w it runs in: state is read from r,            *)
(* window.location is read from w, and the effect's setState calls and     *)
(* pushState are applied to w.                                             *)
(***************************************************************************)
\* useEffect [searchQuery, selectedTags, filterInstructions]
ResetEffect(r, w) ==
    LET filtered == filterInstructions(instructions, r.searchQuery, r.selectedTags,
                                       r.favoriteInstructions)
    IN  [w EXCEPT !.visibleInstructions = Slice(filtered, 0, PAGE_SIZE),
                  !.page = 1,
                  !.hasMore = Len(filtered) > PAGE_SIZE]

\* Mutant: a record opened from the URL is counted like a click.
handleUrlParams_Counting(w) ==
    LET sharedInstructionName == Get(Location(w).instruction)
        instructionToShow == Find(decodeURIComponent(sharedInstructionName))
        newStats == Put(w.usageStats, instructions[instructionToShow].filename,
                        Count(w.usageStats, instructions[instructionToShow].filename) + 1)
    IN  IF sharedInstructionName # << >> /\ instructionToShow # 0
        THEN [w EXCEPT !.selectedInstruction = instructionToShow,
                       !.usageStats = newStats,
                       !.storage.instructionUsageStats = newStats]
        ELSE w

\* Mutant: the first popstate listener opens nothing.
handleUrlParams_OpensNothing(w) == w

\* handleUrlParams throws: decodeURIComponent, called by the callback of
\* instructions.find for the first record, is given a malformed name.
handleUrlParamsThrows(w) ==
    /\ Get(Location(w).instruction) # << >>
    /\ Len(instructions) > 0
    /\ Malformed(Get(Location(w).instruction))

\* handleUrlParams: run on mount and as a popstate listener.  When it throws
\* it has set nothing.
handleUrlParams(w) ==
    LET sharedInstructionName == Get(Location(w).instruction)
        instructionToShow == Find(decodeURIComponent(sharedInstructionName))
    IN  IF handleUrlParamsThrows(w) THEN w
        ELSE IF sharedInstructionName # << >> /\ instructionToShow # 0
        THEN [w EXCEPT !.selectedInstruction = instructionToShow]
        ELSE w

\* Mutant: the URL is pushed without comparing it with the current one.
ModalUrlEffect_AlwaysPushes(r, w) ==
    LET url == [Location(w) EXCEPT !.instruction =
                   IF r.selectedInstruction # 0
                   THEN <<encodeURIComponent(
                            instructions[r.selectedInstruction].filename)>>
                   ELSE << >>]
    IN  PushState(w, url)

\* useEffect [selectedInstruction]: update URL when modal opens/closes
ModalUrlEffect(r, w) ==
    LET url == [Location(w) EXCEPT !.instruction =
                   IF r.selectedInstruction # 0
                   THEN <<encodeURIComponent(
                            instructions[r.selectedInstruction].filename)>>
                   ELSE << >>]
    IN  IF url # Location(w) THEN PushState(w, url) ELSE w

\* Mutant: the second popstate listener leaves the selection as it is.
handlePopState_KeepsSelection(w) == w

\* handlePopState: the second popstate listener
handlePopState(w) ==
    IF Location(w).instruction = << >>
    THEN [w EXCEPT !.selectedInstruction = 0]
    ELSE w

\* Mutant: the tags parameter is written, and never deleted.
updateUrlWithFilters_NeverDeletes(r, w) ==
    LET url == [Location(w) EXCEPT !.tags =
                   IF Len(r.selectedTags) > 0 THEN <<Join(r.selectedTags)>>
                   ELSE Location(w).tags]
    IN  IF url # Location(w) THEN PushState(w, url) ELSE w

\* updateUrlWithFilters, run by useEffect [selectedTags, updateUrlWithFilters]
updateUrlWithFilters(r, w) ==
    LET url == [Location(w) EXCEPT !.tags =
                   IF Len(r.selectedTags) > 0 THEN <<Join(r.selectedTags)>>
                   ELSE << >>]
    IN  IF url # Location(w) THEN PushState(w, url) ELSE w

\* The keys the object groupedInstructions, built from {}, inherits from
\* Object.prototype (of the names used here): groupedInstructions[key] is a
\* function for them, which is truthy and has no slice method.
InheritedKeys == { <<"t", "o", "S", "t", "r", "i", "n", "g">> }

\* groupedInstructions[categoryParam].slice throws TypeError.
InitialParamsEffectThrows(w) ==
    /\ Get(Location(w).category) \in InheritedKeys
    /\ groupedInstructions(Get(Location(w).category)) = << >>

\* useEffect []: handle initial URL params
InitialParamsEffect(r, w) ==
    LET categoryParam == Get(Location(w).category)
        tagsParam == Get(Location(w).tags)
        a == IF categoryParam # << >> /\ groupedInstructions(categoryParam) # << >>
             THEN [w EXCEPT !.selectedCategory = categoryParam,
                            !.visibleInstructions =
                                Slice(groupedInstructions(categoryParam), 0, PAGE_SIZE)]
             ELSE w
    IN  IF InitialParamsEffectThrows(w)
        THEN [w EXCEPT !.selectedCategory = categoryParam, !.error = TRUE]
        ELSE IF tagsParam # << >>
        THEN [a EXCEPT !.selectedTags = Split(tagsParam)]
        ELSE a

\* What React does after a handler turned state w0 into w1: the effects whose
\* dependencies changed run, in the order they are declared.  tagsSet and
\* favoritesSet tell that selectedTags, favoriteInstructions were given a new
\* array (arrays are compared by identity).  No effect depends on what these
\* effects set, so one round settles.
RunEffects(w0, w1, tagsSet, favoritesSet) ==
    LET a == IF w1.searchQuery # w0.searchQuery \/ tagsSet \/ favoritesSet
             THEN ResetEffect(w1, w1) ELSE w1
        b == IF w1.selectedInstruction # w0.selectedInstruction
             THEN ModalUrlEffect(w1, a) ELSE a
    IN  IF tagsSet THEN updateUrlWithFilters(w1, b) ELSE b

\* The first render and its effects, all run with the initial state r, then
\* the render those effects cause.  When the render throws (loadStoredState)
\* no effect runs.  An effect that throws does not keep the effects after it
\* from running; React then takes the whole application down, as no error
\* boundary is above App.
Mount(r) ==
    LET a == ResetEffect(r, r)
        b == IF handleUrlParamsThrows(a) THEN [a EXCEPT !.error = TRUE]
             ELSE handleUrlParams(a)
        c == ModalUrlEffect(r, b)
        d == updateUrlWithFilters(r, c)
        e == InitialParamsEffect(r, d)
    IN  IF r.error THEN r
        ELSE IF e.error THEN e
        ELSE RunEffects(r, e, Get(Location(d).tags) # << >>, FALSE)

(***************************************************************************)
(* The handlers of App, as functions of the world.                         *)
(***************************************************************************)
\* The body of the debounced handleSearch (query is a string).
handleSearch(w, query) ==
    [w EXCEPT !.searchQuery = query,
              !.page = 1,
              !.visibleInstructions = << >>,
              !.hasMore = TRUE]

loadMoreInstructions(w) ==
    LET filtered == IF w.selectedCategory # << >>
                    THEN groupedInstructions(w.selectedCategory)
                    ELSE filterInstructions(instructions, w.searchQuery,
                                            w.selectedTags, w.favoriteInstructions)
        nextPage == w.page + 1
        startIndex == (nextPage - 1) * PAGE_SIZE
        newInstructions == Slice(filtered, startIndex, startIndex + PAGE_SIZE)
    IN  [w EXCEPT !.visibleInstructions = w.visibleInstructions \o newInstructions,
                  !.page = nextPage,
                  !.hasMore = startIndex + PAGE_SIZE < Len(filtered)]

handleCategoryClick(w, category) ==
    [w EXCEPT !.selectedCategory = category,
              !.visibleInstructions = Slice(groupedInstructions(category), 0, PAGE_SIZE),
              !.page = 1,
              !.hasMore = Len(groupedInstructions(category)) > PAGE_SIZE]

handleBackToCategories(w) ==
    LET filtered == filterInstructions(instructions, w.searchQuery, w.selectedTags,
                                       w.favoriteInstructions)
    IN  [w EXCEPT !.selectedCategory = << >>,
                  !.visibleInstructions = Slice(filtered, 0, PAGE_SIZE),
                  !.page = 1,
                  !.hasMore = Len(filtered) > PAGE_SIZE]

\* The updater handleTagToggle gives to setSelectedTags.
ToggleTag(prevTags, tag) ==
    IF ArrayIncludes(prevTags, tag)
    THEN SelectSeq(prevTags, LAMBDA t : t # tag)
    ELSE Append(prevTags, tag)

handleTagToggle(w, tag) ==
    [w EXCEPT !.selectedTags = ToggleTag(w.selectedTags, tag)]

\* Mutant: the previous count is not read.
IncrementUsage_FromZero(prevStats, filename) == Put(prevStats, filename, 1)

\* The updater handleSelectInstruction gives to setUsageStats.
IncrementUsage(prevStats, filename) ==
    Put(prevStats, filename, Count(prevStats, filename) + 1)

handleSelectInstruction(w, i) ==
    LET newStats == IncrementUsage(w.usageStats, instructions[i].filename)
    IN  [w EXCEPT !.usageStats = newStats,
                  !.storage.instructionUsageStats = newStats,
                  !.selectedInstruction = i]

\* Mutant: the removal keeps the filename and drops the others.
ToggleFavorite_WrongFilter(prev, filename) ==
    IF ArrayIncludes(prev, filename)
    THEN SelectSeq(prev, LAMBDA f : f = filename)
    ELSE Append(prev, filename)

\* Mutant: the filename is appended without looking for it in the list.
ToggleFavorite_AlwaysAppend(prev, filename) == Append(prev, filename)

\* The updater handleToggleFavorite gives to setFavoriteInstructions.
ToggleFavorite(prev, filename) ==
    IF ArrayIncludes(prev, filename)
    THEN SelectSeq(prev, LAMBDA f : f # filename)
    ELSE Append(prev, filename)

handleToggleFavorite(w, i) ==
    LET newFavorites == ToggleFavorite(w.favoriteInstructions, instructions[i].filename)
    IN  [w EXCEPT !.favoriteInstructions = newFavorites,
                  !.storage.favoriteInstructions = newFavorites]

\* JSON.stringify of a boolean
JSONStringify(b) == IF b THEN "true" ELSE "false"

\* Mutant: the flag is saved before it is flipped.
toggleDarkMode_SavesOld(w) ==
    [w EXCEPT !.isDarkMode = ~w.isDarkMode,
              !.storage.darkMode = <<JSONStringify(w.isDarkMode)>>]

\* toggleDarkMode, with saveDarkMode
toggleDarkMode(w) ==
    LET newMode == ~w.isDarkMode
    IN  [w EXCEPT !.isDarkMode = newMode,
                  !.storage.darkMode = <<JSONStringify(newMode)>>]

\* handleStartConversation: the updater given to setToolUsageStats, with
\* saveToolUsageStats.  The handler then throws ReferenceError at aiTools,
\* which App.jsx neither imports nor defines; the update it queued before is
\* still applied.
handleStartConversation(w, website) ==
    LET newStats == Put(w.toolUsageStats, website,
                        Count(w.toolUsageStats, website) + 1)
    IN  [w EXCEPT !.toolUsageStats = newStats,
                  !.storage.toolUsageStats = newStats]

\* handleQuickAction: it throws ReferenceError at aiTools.tools, before it
\* has set or saved anything.
handleQuickAction(w, i) == w

\* onClose of SelectedInstructionModal
onClose(w) == [w EXCEPT !.selectedInstruction = 0]

\* The keys loadStoredState hands to JSON.parse.
ParsedKeys ==
    {"customTools", "instructionUsageStats", "toolUsageStats", "favoriteInstructions"}

\* Mutant: the usage map starts empty, the stored one is not read.
InitialState_UsageNotLoaded(stored, hist, at, prefers) ==
    [ usageStats           |-> << >>,
      toolUsageStats       |-> stored.toolUsageStats,
      favoriteInstructions |-> stored.favoriteInstructions,
      searchQuery          |-> << >>,
      selectedTags         |-> << >>,
      visibleInstructions  |-> << >>,
      hasMore              |-> TRUE,
      page                 |-> 1,
      selectedInstruction  |-> 0,
      selectedCategory     |-> << >>,
      entries              |-> hist,
      index                |-> at,
      storage              |-> stored,
      isDarkMode           |-> stored.darkMode # <<"false">>,
      prefersDark          |-> prefers,
      error                |-> stored.corrupt \cap ParsedKeys # {} ]

\* loadStoredState and the useState initialisers of App, at a page load with
\* the given session history.
InitialState(stored, hist, at, prefers) ==
    [ usageStats           |-> stored.instructionUsageStats,
      toolUsageStats       |-> stored.toolUsageStats,
      favoriteInstructions |-> stored.favoriteInstructions,
      searchQuery          |-> << >>,
      selectedTags         |-> << >>,
      visibleInstructions  |-> << >>,
      hasMore              |-> TRUE,
      page                 |-> 1,
      selectedInstruction  |-> 0,
      selectedCategory     |-> << >>,
      entries              |-> hist,
      index                |-> at,
      storage              |-> stored,
      isDarkMode           |-> stored.darkMode # <<"false">>,
      prefersDark          |-> prefers,
      error                |-> stored.corrupt \cap ParsedKeys # {} ]

(***************************************************************************)
(* What is rendered, which decides what the user can do.                   *)
(***************************************************************************)
showCategoryList ==
    searchQuery = << >> /\ Len(selectedTags) = 0 /\ selectedCategory = << >>

\* showHero once its effect has run
showHero == selectedCategory = << >> /\ Len(selectedTags) = 0

(***************************************************************************)
(* The inputs the runs draw from.                                          *)
(***************************************************************************)
Queries == { << >>, <<"G", "o">> }

TagChoices == { Favorites }

Categories == {instructions[i].category : i \in 1..Len(instructions)}

\* The record the user opens or bookmarks: one of the second page of the
\* catalogue, and of the small category.
Clicked == {22}

NoParams == Url(<< >>, << >>, << >>)

\* The URLs a session starts at: the plain address and a category link.
StartUrls ==
    { NoParams,
      Url(<< >>, << >>, << <<"o", "p", "s">> >>) }

\* Links as the application writes them for a selection of tags.
SharedTagLists ==
    { << <<"b", "e">>, <<"r", "e">> >>, << <<"r", "e">> >>, <<Favorites>> }

SharedUrls == { Url(<< >>, <<Join(tags)>>, << >>) : tags \in SharedTagLists }

EmptyStorage ==
    [ instructionUsageStats |-> << >>,
      toolUsageStats        |-> << >>,
      favoriteInstructions  |-> << >>,
      darkMode              |-> << >>,
      corrupt               |-> {} ]

\* What an earlier session left: record 2 opened once and bookmarked.
ReturningStorage ==
    [ instructionUsageStats |-> Put(<< >>, FileName(2), 1),
      toolUsageStats        |-> << >>,
      favoriteInstructions  |-> <<FileName(2)>>,
      darkMode              |-> << >>,
      corrupt               |-> {} ]

StartStorages == { EmptyStorage, ReturningStorage }

NoCall == [fn |-> "none"]

(***************************************************************************)
(* The application: a page load, then the user's operations.  Each action  *)
(* is a handler together with the effects React runs after it.             *)
(***************************************************************************)
LoadedFrom(urls, storages, preferences) ==
    \E stored \in storages, url \in urls, prefers \in preferences :
        LET w == Mount(InitialState(stored, <<url>>, 1, prefers))
        IN  /\ usageStats = w.usageStats
            /\ toolUsageStats = w.toolUsageStats
            /\ favoriteInstructions = w.favoriteInstructions
            /\ searchQuery = w.searchQuery
            /\ selectedTags = w.selectedTags
            /\ visibleInstructions = w.visibleInstructions
            /\ hasMore = w.hasMore
            /\ page = w.page
            /\ selectedInstruction = w.selectedInstruction
            /\ selectedCategory = w.selectedCategory
            /\ entries = w.entries
            /\ index = w.index
            /\ storage = w.storage
            /\ isDarkMode = w.isDarkMode
            /\ prefersDark = w.prefersDark
            /\ error = w.error
            /\ event = LoadEvent(url)
            /\ call = NoCall

LoadedAt(urls) == LoadedFrom(urls, StartStorages, {FALSE})

Init == LoadedAt(StartUrls)

\* SearchBar is rendered while no category and no tag is selected.
Search(query) ==
    /\ selectedCategory = << >> /\ Len(selectedTags) = 0
    /\ Becomes(RunEffects(World, handleSearch(World, query), FALSE, FALSE),
               "handleSearch", 0)

\* InfiniteScroll calls next while hasMore, when the list is rendered.
LoadMore ==
    /\ ~showCategoryList /\ hasMore
    /\ Becomes(RunEffects(World, loadMoreInstructions(World), FALSE, FALSE),
               "loadMoreInstructions", 0)

CategoryClick(category) ==
    /\ showCategoryList
    /\ Becomes(RunEffects(World, handleCategoryClick(World, category), FALSE, FALSE),
               "handleCategoryClick", 0)

BackToCategories ==
    /\ ~showCategoryList /\ selectedCategory # << >>
    /\ Becomes(RunEffects(World, handleBackToCategories(World), FALSE, FALSE),
               "handleBackToCategories", 0)

TagToggle(tag) ==
    Becomes(RunEffects(World, handleTagToggle(World, tag), TRUE, FALSE),
            "handleTagToggle", 0)

\* A record is opened from the list, or from the top/favourite lists of the
\* hero section.
SelectInstruction(i) ==
    /\ \/ ~showCategoryList /\ ArrayIncludes(visibleInstructions, i)
       \/ showHero /\ instructions[i].filename \in DOMAIN usageStats
       \/ showHero /\ ArrayIncludes(favoriteInstructions, instructions[i].filename)
    /\ Count(usageStats, instructions[i].filename) < MaxCount
    /\ Becomes(RunEffects(World, handleSelectInstruction(World, i), FALSE, FALSE),
               "handleSelectInstruction", i)

CloseModal ==
    /\ selectedInstruction # 0
    /\ Becomes(RunEffects(World, onClose(World), FALSE, FALSE),
               "onClose", 0)

\* The favourite button of the modal, or the remove button of the hero's list.
ToggleFavoriteOf(i) ==
    /\ \/ selectedInstruction = i
       \/ showHero /\ ArrayIncludes(favoriteInstructions, instructions[i].filename)
    /\ Becomes(RunEffects(World, handleToggleFavorite(World, i), FALSE, TRUE),
               "handleToggleFavorite", i)

\* The dark mode button of the header.
ToggleDarkMode ==
    Becomes(toggleDarkMode(World), "toggleDarkMode", 0)

\* A tool's button in the modal of the open record.
StartConversation(website) ==
    /\ selectedInstruction # 0
    /\ Count(toolUsageStats, website) < MaxCount
    /\ Becomes(handleStartConversation(World, website), "handleStartConversation", 0)

\* The quick action button of a record of the list.
QuickAction(i) ==
    /\ ~showCategoryList /\ ArrayIncludes(visibleInstructions, i)
    /\ Becomes(handleQuickAction(World, i), "handleQuickAction", i)

\* Browser back and forward: the location changes, then popstate is
\* dispatched to handleUrlParams and handlePopState, in that order.
PopState(to) ==
    LET moved == [World EXCEPT !.index = to]
    IN  /\ ~error
        /\ Settles(RunEffects(World, handlePopState(handleUrlParams(moved)),
                           FALSE, FALSE))
        /\ event' = PopStateEvent

Back == index > 1 /\ PopState(index - 1)

Forward == index < Len(entries) /\ PopState(index + 1)

\* The page is loaded again at the current entry of the session history.
Reload ==
    /\ Settles(Mount(InitialState(storage, entries, index, prefersDark)))
    /\ event' = LoadEvent(entries[index])

Next ==
    \/ \E query \in Queries : Search(query)
    \/ LoadMore
    \/ \E category \in Categories : CategoryClick(category)
    \/ BackToCategories
    \/ \E tag \in TagChoices : TagToggle(tag)
    \/ \E i \in Clicked : SelectInstruction(i)
    \/ CloseModal
    \/ \E i \in Clicked : ToggleFavoriteOf(i)
    \/ Back
    \/ Forward
    \/ Reload

Spec == Init /\ [][Next]_vars

\* The application opened from a shared link that carries tags.
InitShared == LoadedAt(SharedUrls)

SpecShared == InitShared /\ [][Next]_vars

(***************************************************************************)
(* The application opened from links that name a record or a category,     *)
(* among them names the catalogue does not have.  The instruction          *)
(* parameter is given as URLSearchParams.get returns it: '%' is what       *)
(* ?instruction=%25 carries.                                               *)
(***************************************************************************)
LinkUrls ==
    { Url(<< <<"z", "z", ".", "m", "d">> >>, << >>, << >>),
      Url(<< <<"%">> >>, << >>, << >>),
      Url(<< >>, << >>, << <<"o", "p", "s">> >>),
      Url(<< >>, << >>, << <<"z", "z">> >>),
      Url(<< >>, << >>, << <<"t", "o", "S", "t", "r", "i", "n", "g">> >>) }

InitLinks == LoadedAt(LinkUrls)

SpecLinks == InitLinks /\ [][Next]_vars

(***************************************************************************)
(* A session opened from the link of a record, and followed as long as the *)
(* page is not loaded again.                                               *)
(***************************************************************************)
DeepUrls ==
    { Url(<<instructions[22].filename>>, << >>, << >>),
      Url(<<instructions[2].filename>>, << >>, << <<"o", "p", "s">> >>) }

InitDeep == LoadedAt(DeepUrls)

NextDeep ==
    \/ \E query \in Queries : Search(query)
    \/ LoadMore
    \/ \E category \in Categories : CategoryClick(category)
    \/ BackToCategories
    \/ \E tag \in TagChoices : TagToggle(tag)
    \/ \E i \in Clicked : SelectInstruction(i)
    \/ CloseModal
    \/ \E i \in Clicked : ToggleFavoriteOf(i)
    \/ Back
    \/ Forward

SpecDeep == InitDeep /\ [][NextDeep]_vars

(***************************************************************************)
(* What the application keeps in localStorage: usage counts, favourites,   *)
(* tool usage counts and the dark mode flag, from any stored state and OS  *)
(* colour scheme.                                                          *)
(***************************************************************************)
\* The names of the tools of the modal.
Websites == { "Tool A", "Tool B" }

\* The text stored under darkMode: none, what saveDarkMode writes, or
\* something else.
DarkModeItems == { << >>, <<"true">>, <<"false">>, <<"dark">> }

\* The JSON keys whose stored text does not parse: none, or one of them.
CorruptChoices == { {} } \cup { {key} : key \in ParsedKeys }

\* A key whose text does not parse has no value; the model keeps the empty
\* one in its place.
StoredChoices ==
    { [stored EXCEPT !.darkMode = item, !.corrupt = corrupt] :
        stored \in StartStorages, item \in DarkModeItems,
        corrupt \in CorruptChoices }

InitPersist == LoadedFrom({NoParams}, StoredChoices, BOOLEAN)

NextPersist ==
    \/ \E category \in Categories : CategoryClick(category)
    \/ BackToCategories
    \/ \E i \in Clicked : SelectInstruction(i)
    \/ CloseModal
    \/ \E i \in Clicked : ToggleFavoriteOf(i)
    \/ \E website \in Websites : StartConversation(website)
    \/ \E i \in Clicked : QuickAction(i)
    \/ ToggleDarkMode
    \/ Reload

SpecPersist == InitPersist /\ [][NextPersist]_vars

(***************************************************************************)
(* The search box.  handleSearch is debounce(..., 300) evaluated in the    *)
(* body of App, so every render of App makes a new debounced function with *)
(* a timer of its own, and SearchBar calls the one of the latest render.   *)
(* call.pending holds the timers that wait, the next to expire first: all  *)
(* wait 300 ms, so they expire in the order they were last armed.  A timer *)
(* is fresh while it belongs to the function SearchBar holds.  call.last   *)
(* is the latest input.                                                    *)
(***************************************************************************)
Pending == IF call.fn = "debounce" THEN call.pending ELSE << >>

\* Every function made by an earlier render is out of SearchBar's reach.
Stale(pending) == [k \in 1..Len(pending) |-> [pending[k] EXCEPT !.fresh = FALSE]]

\* A call of the debounced function SearchBar holds: its timer, if it
\* waits, is armed again with the new argument; otherwise it is started.
debounced(pending, query) ==
    Append(SelectSeq(pending, LAMBDA timer : ~timer.fresh),
           [query |-> query, fresh |-> TRUE])

\* The user types into the search box: onSearch of SearchBar.
TypeSearch(query) ==
    /\ ~error
    /\ selectedCategory = << >> /\ Len(selectedTags) = 0
    /\ Len(debounced(Pending, query)) <= MaxPending
    /\ call' = [fn |-> "debounce", pending |-> debounced(Pending, query),
                last |-> <<query>>]
    /\ event' = UserEvent("onSearch", 0)
    /\ UNCHANGED <<usageStats, toolUsageStats, favoriteInstructions, searchQuery,
                   selectedTags, visibleInstructions, hasMore, page,
                   selectedInstruction, selectedCategory, entries, index,
                   storage, isDarkMode, prefersDark, error>>

\* App renders again while a timer waits, for a reason of its own: the
\* references arrive (setReferencesData), or the copied mark times out.
Rerender ==
    /\ ~error
    /\ \E k \in 1..Len(Pending) : Pending[k].fresh
    /\ call' = [call EXCEPT !.pending = Stale(Pending)]
    /\ event' = UserEvent("setReferencesData", 0)
    /\ UNCHANGED <<usageStats, toolUsageStats, favoriteInstructions, searchQuery,
                   selectedTags, visibleInstructions, hasMore, page,
                   selectedInstruction, selectedCategory, entries, index,
                   storage, isDarkMode, prefersDark, error>>

\* The timer that expires next calls the body of handleSearch with the
\* argument it was armed with; App renders with the new state.
SearchTimer ==
    /\ ~error
    /\ Pending # << >>
    /\ Commits(RunEffects(World, handleSearch(World, Pending[1].query), FALSE, FALSE))
    /\ call' = [call EXCEPT !.pending = Stale(Tail(Pending))]
    /\ event' = UserEvent("handleSearch", 0)

InitSearch == LoadedAt({NoParams})

NextSearch ==
    \/ \E query \in Queries \cup { <<"G">> } : TypeSearch(query)
    \/ Rerender
    \/ SearchTimer

SpecSearch == InitSearch /\ [][NextSearch]_vars

(***************************************************************************)
(* The tag filter on its own: any of three tags toggled in any order, and  *)
(* page loads in between.                                                  *)
(***************************************************************************)
ToggledTags == { Favorites, <<"r", "e">>, <<"b", "e">> }

NextTags ==
    \/ \E tag \in ToggledTags : TagToggle(tag)
    \/ Reload

SpecTags == Init /\ [][NextTags]_vars

(***************************************************************************)
(* filterInstructions on its own: any small catalogue, query, selection    *)
(* and favourites list.                                                    *)
(***************************************************************************)
\* The sequences of at most n elements of S.
RECURSIVE ListsOf(_, _)
ListsOf(S, n) ==
    IF n = 0 THEN { << >> }
    ELSE LET shorter == ListsOf(S, n - 1)
         IN  shorter \cup {Append(l, x) : l \in shorter, x \in S}

RecordChoices ==
    { [ filename      |-> f,
        category      |-> shape[1],
        subcategories |-> shape[2],
        content       |-> shape[3],
        tags          |-> t ] :
      f \in { <<"x">>, <<"y">> },
      shape \in { << <<"b", "e">>, << >>, <<"a">> >>,
                  << <<"b", "e">>, << <<"a">>, <<"G", "o">> >>, <<"a">> >>,
                  << <<"b", "e">>, << >>, <<"a", "G", "O">> >> },
      t \in { << <<"r">> >>, << <<"r">>, <<"s">> >> } }

FilterQueries == { << >>, <<"g", "O">>, <<"e">> }

FilterTags ==
    { << >>, <<Favorites>>, << <<"r">> >>, <<Favorites, <<"s">> >>,
      << <<"s">>, <<"r">> >> }

FilterFavorites == { << >>, << <<"x">> >> }

\* The state of the application while a library function is run on its own.
Idle ==
    LET w == InitialState(EmptyStorage, <<NoParams>>, 1, FALSE)
    IN  /\ usageStats = w.usageStats
        /\ toolUsageStats = w.toolUsageStats
        /\ favoriteInstructions = w.favoriteInstructions
        /\ searchQuery = w.searchQuery
        /\ selectedTags = w.selectedTags
        /\ visibleInstructions = w.visibleInstructions
        /\ hasMore = w.hasMore
        /\ page = w.page
        /\ selectedInstruction = w.selectedInstruction
        /\ selectedCategory = w.selectedCategory
        /\ entries = w.entries
        /\ index = w.index
        /\ isDarkMode = w.isDarkMode
        /\ prefersDark = w.prefersDark
        /\ error = w.error
        /\ event = UserEvent("none", 0)

IdleKept ==
    UNCHANGED <<usageStats, toolUsageStats, favoriteInstructions, searchQuery,
                selectedTags, visibleInstructions, hasMore, page,
                selectedInstruction, selectedCategory, entries, index, storage,
                isDarkMode, prefersDark, error, event>>

InitFilter ==
    /\ Idle
    /\ storage = EmptyStorage
    /\ \E records \in ListsOf(RecordChoices, MaxCorpus), query \in FilterQueries,
          tags \in FilterTags, favorites \in FilterFavorites :
          call = [ fn        |-> "filterInstructions",
                   records   |-> records,
                   query     |-> query,
                   tags      |-> tags,
                   favorites |-> favorites,
                   result    |-> << >> ]

FilterCall ==
    /\ call.fn = "filterInstructions"
    /\ call.result = << >>
    /\ call' = [call EXCEPT !.result =
                   <<filterInstructions(call.records, call.query, call.tags,
                                        call.favorites)>>]
    /\ IdleKept

SpecFilter == InitFilter /\ [][FilterCall]_vars

(***************************************************************************)
(* getMostFrequentTool (utils/localStorage.js) on its own: any small list  *)
(* of tools and any stored usage map.  Math.random is any number in [0,1), *)
(* so the floor of its product with n is any of 0..n-1.                    *)
(***************************************************************************)
MaxTools == 3         \* tools handed to getMostFrequentTool
MaxStat == 2          \* largest stored usage count of a tool

\* The names tools are given; custom tools are named by the user.
ToolNames == { "Tool A", "Tool B", "Tool C", "toString" }

\* The keys every object parsed by JSON.parse inherits from Object.prototype
\* (of the names used here).
ObjectPrototype == { "toString" }

\* stats[tool.name] || 0 is a number: the stored count, or 0 for a key the
\* object does not have at all.  For an inherited key it is the inherited
\* function, which is truthy, compares false with > against every number and
\* is === to none.
IsNumber(stats, tool) == tool \in DOMAIN stats \/ tool \notin ObjectPrototype

\* forEach over the tools: the largest usage seen, starting from -1.
RECURSIVE MaxUsage(_, _, _)
MaxUsage(tools, stats, maxUsage) ==
    IF tools = << >> THEN maxUsage
    ELSE LET usage == Count(stats, tools[1])
         IN  MaxUsage(Tail(tools), stats,
                      IF IsNumber(stats, tools[1]) /\ usage > maxUsage
                      THEN usage ELSE maxUsage)

ToolCandidates(tools, stats) ==
    SelectSeq(tools, LAMBDA tool : /\ IsNumber(stats, tool)
                                   /\ Count(stats, tool) = MaxUsage(tools, stats, -1))

\* randomIndex is Math.floor(Math.random() * candidates.length).
getMostFrequentTool(tools, stats, randomIndex) ==
    LET candidates == ToolCandidates(tools, stats)
    IN  IF Len(candidates) = 0 THEN "null" ELSE candidates[randomIndex + 1]

RandomIndices(tools, stats) ==
    IF Len(ToolCandidates(tools, stats)) = 0 THEN {0}
    ELSE 0..(Len(ToolCandidates(tools, stats)) - 1)

StatsChoices ==
    UNION { [names -> 1..MaxStat] : names \in SUBSET ToolNames }

InitTools ==
    /\ Idle
    /\ \E stats \in StatsChoices :
          storage = [EmptyStorage EXCEPT !.toolUsageStats = stats]
    /\ \E tools \in ListsOf(ToolNames, MaxTools) :
          call = [fn |-> "getMostFrequentTool", tools |-> tools, result |-> << >>]

ToolCall ==
    /\ call.fn = "getMostFrequentTool"
    /\ call.result = << >>
    /\ \E randomIndex \in RandomIndices(call.tools, storage.toolUsageStats) :
          call' = [call EXCEPT !.result =
                      <<getMostFrequentTool(call.tools, storage.toolUsageStats,
                                            randomIndex)>>]
    /\ IdleKept

SpecTools == InitTools /\ [][ToolCall]_vars

(***************************************************************************)
(* The tag index App computes from instructions.json on every render:      *)
(* allTags, tagCounts and sortedTags, on any small catalogue.              *)
(***************************************************************************)
\* The key every object literal inherits an accessor for: an assignment of
\* a number to it is dropped, and a read of it gives Object.prototype.
Proto == <<"_", "_", "p", "r", "o", "t", "o", "_", "_">>

TagNames == { <<"r">>, <<"s">>, Proto }

\* A record of the catalogue, of which only the tags are read here; a record
\* may have no tags field.
TaggedChoices ==
    { [filename |-> <<"x">>] } \cup
    { [filename |-> <<"x">>, tags |-> t] : t \in ListsOf(TagNames, 2) }

\* instruction.tags || []
TagsOf(instruction) ==
    IF "tags" \in DOMAIN instruction THEN instruction.tags ELSE << >>

\* instructions.flatMap((instruction) => instruction.tags || [])
RECURSIVE FlatMapTags(_)
FlatMapTags(records) ==
    IF records = << >> THEN << >>
    ELSE TagsOf(records[1]) \o FlatMapTags(Tail(records))

\* [...new Set(arr)]: the first occurrence of each element, in order.
RECURSIVE Unique(_)
Unique(arr) ==
    IF arr = << >> THEN << >>
    ELSE LET front == Unique(SubSeq(arr, 1, Len(arr) - 1))
             last == arr[Len(arr)]
         IN  IF ArrayIncludes(front, last) THEN front ELSE Append(front, last)

allTags(records) == Unique(FlatMapTags(records))

\* instructions.filter((instruction) => (instruction.tags || []).includes(tag)).length
TaggedWith(records, tag) ==
    Cardinality({i \in 1..Len(records) : ArrayIncludes(TagsOf(records[i]), tag)})

\* The object the reduce builds from {}: its own keys and their values.
tagCounts(records) ==
    [tag \in Range(allTags(records)) \ {Proto} |-> TaggedWith(records, tag)]

\* tagCounts[b] - tagCounts[a] is a number when both reads are.
Comparable(counts, a, b) == a \in DOMAIN counts /\ b \in DOMAIN counts

\* Array.prototype.sort is stable: an element goes behind every element that
\* does not compare after it.
RECURSIVE StableSort(_, _)
StableSort(arr, counts) ==
    IF arr = << >> THEN << >>
    ELSE LET front == StableSort(SubSeq(arr, 1, Len(arr) - 1), counts)
             last == arr[Len(arr)]
             before == SelectSeq(front, LAMBDA t : counts[last] - counts[t] <= 0)
             after == SelectSeq(front, LAMBDA t : counts[last] - counts[t] > 0)
         IN  before \o <<last>> \o after

Orderings(arr) ==
    { p \in [1..Len(arr) -> Range(arr)] : Range(p) = Range(arr) }

\* allTags.sort((a, b) => tagCounts[b] - tagCounts[a]).  Where the
\* comparator gives NaN for some pairs it is not a consistent comparator,
\* and the order is then implementation-defined.
SortOutcomes(arr, counts) ==
    IF \A a, b \in Range(arr) : Comparable(counts, a, b)
    THEN { StableSort(arr, counts) }
    ELSE Orderings(arr)

InitTagIndex ==
    /\ Idle
    /\ storage = EmptyStorage
    /\ \E records \in ListsOf(TaggedChoices, MaxCorpus) :
          call = [fn |-> "tagIndex", records |-> records, result |-> << >>]

\* One render of App: sort works in place, so allTags is the sorted array.
TagIndexCall ==
    /\ call.fn = "tagIndex"
    /\ call.result = << >>
    /\ \E sorted \in SortOutcomes(allTags(call.records), tagCounts(call.records)) :
          call' = [call EXCEPT !.result =
                      << [ allTags    |-> sorted,
                           tagCounts  |-> tagCounts(call.records),
                           sortedTags |-> sorted ] >>]
    /\ IdleKept

SpecTagIndex == InitTagIndex /\ [][TagIndexCall]_vars

(***************************************************************************)
(* The indexer script (scripts/generate-instructions.js): the tags it      *)
(* derives for one Markdown file.                                          *)
(***************************************************************************)
\* The characters escapeRegExp puts a backslash before (of those used here).
RegExpSpecial == { "+", ".", "*", "?" }

\* escapeRegExp: the pattern, one atom per character of the string.
escapeRegExp(string) ==
    [i \in 1..Len(string) |->
        IF string[i] \in RegExpSpecial THEN <<"\\", string[i]>> ELSE <<string[i]>>]

\* The character an atom of the pattern matches: an escaped character or a
\* plain one stands for itself.
AtomChar(atom) == atom[Len(atom)]

\* Canonicalize of the i flag: the upper case of a character.
Canonicalize(c) ==
    CASE c = "c" -> "C"
      [] c = "g" -> "G"
      [] c = "o" -> "O"
      [] OTHER -> c

\* \w of the regular expression: letters, digits and the underscore.
IsWordChar(c) == c \in { "c", "C", "g", "G", "o", "O", "1", "_" }

\* \b between the characters i and i + 1 of the body: exactly one of them
\* is a word character (the ends of the body count as none).
WordBoundary(body, i) ==
    LET left == i >= 1 /\ IsWordChar(body[i])
        right == i + 1 <= Len(body) /\ IsWordChar(body[i + 1])
    IN  left # right

\* new RegExp(`\\b${escapeRegExp(keyword)}\\b`, "i").test(body)
RegexTest(keyword, body) ==
    LET atoms == escapeRegExp(keyword)
        n == Len(atoms)
    IN  \E at \in 1..(Len(body) - n + 1) :
            /\ WordBoundary(body, at - 1)
            /\ \A k \in 1..n :
                  Canonicalize(body[at + k - 1]) = Canonicalize(AtomChar(atoms[k]))
            /\ WordBoundary(body, at + n - 1)

\* Keywords of the three lists: languageKeywords (C++, C#, Go), archKeywords
\* and libraryKeywords are scanned the same way, one list after the other.
Keywords == << <<"C", "+", "+">>, <<"C", "#">>, <<"G", "o">> >>

BodyChars == { "C", "c", "+", "#", "G", "o", " ", "1" }

\* data.tags || []
FrontMatterTags(data) == IF "tags" \in DOMAIN data THEN data.tags ELSE << >>

\* Array.from(tags): category, subcategories and front-matter tags, then the
\* keywords found, each once, in the order they were added to the Set.
DerivedTags(category, subcategories, data, body) ==
    Unique(<<category>> \o subcategories \o FrontMatterTags(data)
           \o SelectSeq(Keywords, LAMBDA keyword : RegexTest(keyword, body)))

InitDerive ==
    /\ Idle
    /\ storage = EmptyStorage
    /\ \E subcategories \in { << >>, << <<"s">> >> },
          data \in { [title |-> <<"x">>],
                     [title |-> <<"x">>, tags |-> << <<"t">>, <<"s">> >>] },
          body \in ListsOf(BodyChars, MaxBody) :
          call = [ fn            |-> "deriveTags",
                   category      |-> <<"o", "p", "s">>,
                   subcategories |-> subcategories,
                   data          |-> data,
                   body          |-> body,
                   result        |-> << >> ]

DeriveCall ==
    /\ call.fn = "deriveTags"
    /\ call.result = << >>
    /\ call' = [call EXCEPT !.result =
                   <<DerivedTags(call.category, call.subcategories, call.data,
                                 call.body)>>]
    /\ IdleKept

SpecDerive == InitDerive /\ [][DeriveCall]_vars

(***************************************************************************)
(* The indexer script as a whole: generateInstructionData walks the        *)
(* content root, collects one record per .md file, sorts the records and   *)
(* writes the output file.  The directory entries are taken in the order   *)
(* of the walk; any of the file system calls and the front-matter parser   *)
(* may throw, and the script catches nothing.                              *)
(***************************************************************************)
\* An entry of the walk: a directory, an .md file or another file; the call
\* that throws for it, if any; its stat.mtime.
EntryChoices ==
    { [kind |-> "md", fault |-> "none", mtime |-> m] : m \in 1..2 } \cup
    { [kind |-> "md", fault |-> f, mtime |-> 1] :
        f \in {"statSync", "readFileSync", "matter"} } \cup
    { [kind |-> "other", fault |-> "none", mtime |-> 1],
      [kind |-> "directory", fault |-> "none", mtime |-> 1],
      [kind |-> "directory", fault |-> "readdirSync", mtime |-> 1] }

\* The calls made for an entry of a kind: statSync for every entry, then
\* readdirSync for a directory, readFileSync and matter for an .md file.
CallsFor(kind) ==
    CASE kind = "directory" -> {"statSync", "readdirSync"}
      [] kind = "md" -> {"statSync", "readFileSync", "matter"}
      [] OTHER -> {"statSync"}

Throws(entry) == entry.fault \in CallsFor(entry.kind)

\* Mutant: an entry that cannot be read is passed over.
walkStep_SkipsFaulty(c) ==
    LET entry == c.entries[c.pos]
    IN  IF entry.kind = "md" /\ ~Throws(entry)
        THEN [c EXCEPT !.pos = c.pos + 1,
                       !.allInstructions =
                           Append(c.allInstructions,
                                  [file |-> c.pos, lastUpdated |-> entry.mtime])]
        ELSE [c EXCEPT !.pos = c.pos + 1]

\* The callback of files.forEach in walkSync, for the next entry: an
\* exception leaves generateInstructionData and ends the script.
walkStep(c) ==
    LET entry == c.entries[c.pos]
    IN  IF Throws(entry) THEN [c EXCEPT !.status = "failed"]
        ELSE IF entry.kind = "md"
        THEN [c EXCEPT !.pos = c.pos + 1,
                       !.allInstructions =
                           Append(c.allInstructions,
                                  [file |-> c.pos, lastUpdated |-> entry.mtime])]
        ELSE [c EXCEPT !.pos = c.pos + 1]

\* allInstructions.sort by lastUpdated, latest first, then writeFileSync.
writeOutput(c) ==
    LET updated == [r \in Range(c.allInstructions) |-> r.lastUpdated]
    IN  [c EXCEPT !.status = "done",
                  !.output = [written |-> TRUE,
                              records |-> StableSort(c.allInstructions, updated)]]

InitGenerate ==
    /\ Idle
    /\ storage = EmptyStorage
    /\ \E walked \in ListsOf(EntryChoices, MaxEntries) :
          call = [ fn              |-> "generateInstructionData",
                   entries         |-> walked,
                   pos             |-> 1,
                   allInstructions |-> << >>,
                   status          |-> "running",
                   output          |-> [written |-> FALSE, records |-> << >>] ]

WalkStep ==
    /\ call.fn = "generateInstructionData"
    /\ call.status = "running"
    /\ call.pos <= Len(call.entries)
    /\ call' = walkStep(call)
    /\ IdleKept

WriteOutput ==
    /\ call.fn = "generateInstructionData"
    /\ call.status = "running"
    /\ call.pos > Len(call.entries)
    /\ call' = writeOutput(call)
    /\ IdleKept

NextGenerate == WalkStep \/ WriteOutput

SpecGenerate == InitGenerate /\ [][NextGenerate]_vars

(***************************************************************************)
(* The fetchReferences effect of App: for each link of references.json the *)
(* cached entry, or a fetch through the proxy whose outcome is cached.     *)
(* call.stored is the 'referencesData' item of localStorage, as a map from *)
(* URL to entry; call.issued the URLs fetched since the page was loaded.   *)
(***************************************************************************)
\* The strings new URL() accepts, of those used here.
ValidUrls == { "https://a.io", "https://b.io" }

\* What references.json may list: links, and a link written without scheme.
ReferenceUrls == ValidUrls \cup { "b.io/x" }

\* loadReferencesData, at the start of fetchReferences
startFetch(c) ==
    [c EXCEPT !.status = "running", !.cachedData = c.stored, !.pos = 1,
              !.newReferencesData = << >>, !.issued = {}]

\* One turn of the for loop, for a link that is not in cachedData.  ok says
\* whether axios.get resolves; new URL(actualUrl) throws for a string that
\* is no URL, in the try block and again in the catch block, from where the
\* exception leaves fetchReferences.
fetchOne(c, ok) ==
    LET actualUrl == c.references[c.pos]
        referenceData == [title |-> "title", url |-> actualUrl]
        errorData == [title |-> "Error loading resource", url |-> actualUrl]
        asked == [c EXCEPT !.issued = c.issued \cup {actualUrl}]
    IN  IF ok /\ actualUrl \in ValidUrls
        THEN [asked EXCEPT !.cachedData = Put(c.cachedData, actualUrl, referenceData),
                           !.newReferencesData = Append(c.newReferencesData, referenceData),
                           !.pos = c.pos + 1]
        ELSE IF actualUrl \in ValidUrls
        THEN [asked EXCEPT !.cachedData = Put(c.cachedData, actualUrl, errorData),
                           !.newReferencesData = Append(c.newReferencesData, errorData),
                           !.pos = c.pos + 1]
        ELSE [asked EXCEPT !.status = "rejected"]

\* One turn of the for loop, for a link that is in cachedData.
takeCached(c) ==
    LET actualUrl == c.references[c.pos]
    IN  [c EXCEPT !.newReferencesData =
                      Append(c.newReferencesData, c.cachedData[actualUrl]),
                  !.pos = c.pos + 1]

\* saveReferencesData(cachedData) and setReferencesData, after the loop
finishFetch(c) ==
    [c EXCEPT !.status = "completed", !.stored = c.cachedData]

InitReferences ==
    /\ Idle
    /\ storage = EmptyStorage
    /\ \E links \in ListsOf(ReferenceUrls, MaxReferences) :
          call = startFetch([ fn                |-> "fetchReferences",
                              references        |-> links,
                              stored            |-> << >>,
                              cachedData        |-> << >>,
                              pos               |-> 1,
                              newReferencesData |-> << >>,
                              issued            |-> {},
                              status            |-> "running" ])

FetchRunning ==
    /\ call.fn = "fetchReferences"
    /\ call.status = "running"

TakeCached ==
    /\ FetchRunning
    /\ call.pos <= Len(call.references)
    /\ call.references[call.pos] \in DOMAIN call.cachedData
    /\ call' = takeCached(call)
    /\ IdleKept

FetchOne ==
    /\ FetchRunning
    /\ call.pos <= Len(call.references)
    /\ call.references[call.pos] \notin DOMAIN call.cachedData
    /\ \E ok \in BOOLEAN : call' = fetchOne(call, ok)
    /\ IdleKept

FinishFetch ==
    /\ FetchRunning
    /\ call.pos > Len(call.references)
    /\ call' = finishFetch(call)
    /\ IdleKept

\* The page is loaded again, after a run has ended.
LoadAgain ==
    /\ call.fn = "fetchReferences"
    /\ call.status # "running"
    /\ call' = startFetch(call)
    /\ IdleKept

NextReferences == TakeCached \/ FetchOne \/ FinishFetch \/ LoadAgain

SpecReferences == InitReferences /\ [][NextReferences]_vars

(***************************************************************************)
(* Two tabs of the application on one localStorage.  Each tab keeps its    *)
(* own usageStats, loaded by loadStoredState when the tab was opened;      *)
(* call.tabs holds them, storage is the one both write to.  call.selects   *)
(* counts the calls of handleSelectInstruction per filename, call.before   *)
(* is the map stored when the tabs were opened.                            *)
(***************************************************************************)
Tabs == 1..2

Opened == { instructions[2].filename, instructions[22].filename }

\* handleSelectInstruction in one tab: the updater works on the tab's own
\* usageStats and saves the result.
tabSelect(c, tab, filename) ==
    LET newStats == IncrementUsage(c.tabs[tab], filename)
    IN  [ call   |-> [c EXCEPT !.tabs[tab] = newStats,
                               !.selects[filename] = c.selects[filename] + 1],
          stored |-> newStats ]

InitTabs ==
    /\ Idle
    /\ storage \in StartStorages
    /\ call = [ fn      |-> "tabs",
                tabs    |-> [tab \in Tabs |-> storage.instructionUsageStats],
                selects |-> [f \in Opened |-> 0],
                before  |-> storage.instructionUsageStats ]

TabSelect(tab, filename) ==
    /\ call.fn = "tabs"
    /\ call.selects[instructions[2].filename]
         + call.selects[instructions[22].filename] < MaxSelects
    /\ LET after == tabSelect(call, tab, filename)
       IN  /\ call' = after.call
           /\ storage' = [storage EXCEPT !.instructionUsageStats = after.stored]
    /\ UNCHANGED <<usageStats, toolUsageStats, favoriteInstructions, searchQuery,
                   selectedTags, visibleInstructions, hasMore, page,
                   selectedInstruction, selectedCategory, entries, index,
                   isDarkMode, prefersDark, error, event>>

\* A tab is loaded again: its usageStats is what is stored.
TabReload(tab) ==
    /\ call.fn = "tabs"
    /\ call' = [call EXCEPT !.tabs[tab] = storage.instructionUsageStats]
    /\ IdleKept

NextTabs ==
    \/ \E tab \in Tabs, filename \in Opened : TabSelect(tab, filename)
    \/ \E tab \in Tabs : TabReload(tab)

SpecTabs == InitTabs /\ [][NextTabs]_vars

(***************************************************************************)
(* Properties.                                                             *)
(***************************************************************************)
\* A record passes the filter, as the specification words it: (a) the
\* favourites clause, (b) the search clause, (c) the tags clause.
PassesFilter(record, query, tags, favorites) ==
    /\ Favorites \in Range(tags) => record.filename \in Range(favorites)
    /\ \E text \in {record.category, record.content} \cup Range(record.subcategories) :
          Includes(ToLowerCase(text), ToLowerCase(query))
    /\ Range(tags) \ {Favorites} \subseteq Range(record.tags)

StrictlyIncreasing(s) == \A i, j \in 1..Len(s) : i < j => s[i] < s[j]

\* C1: filterInstructions returns exactly the records that pass the three
\* clauses (favourites, case-insensitive search, every other selected tag),
\* each once and in input order, whatever the records, query, selected tags
\* and favourites are.
C1_FilterExact ==
    (call.fn = "filterInstructions" /\ call.result # << >>) =>
        /\ StrictlyIncreasing(call.result[1])
        /\ Range(call.result[1]) =
              { i \in 1..Len(call.records) :
                  PassesFilter(call.records[i], call.query, call.tags,
                               call.favorites) }

\* C1 witness: a call on two records of which the filter kept the second
\* only, with a mixed-case query and the favourites tag among the selection.
C1_Witness ==
    /\ call.fn = "filterInstructions"
    /\ call.result = << <<2>> >>
    /\ Len(call.records) = 2
    /\ call.query = <<"g", "O">>
    /\ call.tags = <<Favorites, <<"s">> >>

\* The usage count of a tool, 0 when the stored map has no entry for it.
UsageOf(tool) == Count(storage.toolUsageStats, tool)

TiedAtMaximum ==
    { t \in Range(call.tools) : \A u \in Range(call.tools) : UsageOf(u) <= UsageOf(t) }

\* C9: getMostFrequentTool returns null for an empty list of tools, and
\* otherwise a tool of the list whose stored count (0 when absent) is the
\* maximum over the list, never one with a lower count; and each tool tied
\* at the maximum is returned for some value of the random number.
C9_PickIsMaximal ==
    (call.fn = "getMostFrequentTool" /\ call.result # << >>) =>
        /\ IF call.tools = << >> THEN call.result[1] = "null"
           ELSE call.result[1] \in TiedAtMaximum
        /\ \A t \in TiedAtMaximum :
              \E randomIndex \in RandomIndices(call.tools, storage.toolUsageStats) :
                  getMostFrequentTool(call.tools, storage.toolUsageStats,
                                      randomIndex) = t

\* The filtered set of the current search, selection and favourites.
Filtered ==
    filterInstructions(instructions, searchQuery, selectedTags, favoriteInstructions)

\* The result set load-more pages through.
Paged ==
    IF selectedCategory # << >> THEN groupedInstructions(selectedCategory)
    ELSE Filtered

\* C2: while no category is selected, the visible list is the first
\* page * PAGE_SIZE records of the filtered set (cumulative pagination: no
\* record of the filtered set is skipped).
C2_VisibleIsPrefix ==
    selectedCategory = << >> =>
        visibleInstructions = Slice(Filtered, 0, page * PAGE_SIZE)

\* C3: hasMore is true exactly when the visible list is shorter than the
\* result set being paged, and false exactly when it has its length.
C3_HasMoreExact ==
    hasMore <=> Len(visibleInstructions) < Len(Paged)

\* The filename of record i.
FileOf(i) == instructions[i].filename

\* C10: right after a page load at a URL whose tags parameter is the
\* comma-join of a tag list, selectedTags holds exactly the tags of that list.
C10_TagsRoundTrip ==
    \A tags \in SharedTagLists :
        (event.kind = "load" /\ event.url[1].tags = <<Join(tags)>>) =>
            Range(selectedTags) = Range(tags)

MaxCalls == 3         \* consecutive calls of selectRecord looked at

\* handleSelectInstruction called n times in a row for record i.
RECURSIVE SelectedTimes(_, _, _)
SelectedTimes(w, i, n) ==
    IF n = 0 THEN w ELSE SelectedTimes(handleSelectInstruction(w, i), i, n - 1)

\* C4: selecting record r adds exactly 1 to the usage count of r.filename
\* (an absent entry is created at 1), changes the count of no other
\* filename, and makes r the open selection; n calls in a row add exactly n.
C4_SelectCountsOne ==
    [][ \A i \in Clicked :
            event' = UserEvent("handleSelectInstruction", i) =>
                /\ FileOf(i) \in DOMAIN usageStats'
                /\ usageStats'[FileOf(i)] = Count(usageStats, FileOf(i)) + 1
                /\ DOMAIN usageStats' = DOMAIN usageStats \cup {FileOf(i)}
                /\ \A f \in DOMAIN usageStats \ {FileOf(i)} :
                      usageStats'[f] = usageStats[f]
                /\ selectedInstruction' = i
                /\ \A n \in 1..MaxCalls :
                      Count(SelectedTimes(World, i, n).usageStats, FileOf(i))
                          = Count(usageStats, FileOf(i)) + n
      ]_vars

\* C4 witness: record 22 was selected, its entry was created at 1, and the
\* entry of another filename is there beside it.
C4_Witness ==
    /\ event = UserEvent("handleSelectInstruction", 22)
    /\ selectedInstruction = 22
    /\ DOMAIN usageStats = {FileOf(2), FileOf(22)}
    /\ usageStats[FileOf(22)] = 1

\* C5: every change of the detail view to open-for-r (from closed or from
\* another record), whatever causes it, adds exactly 1 to the count of r.
C5_EveryOpeningCounts ==
    [][ (selectedInstruction' # 0 /\ selectedInstruction' # selectedInstruction) =>
            Count(usageStats', FileOf(selectedInstruction'))
                = Count(usageStats, FileOf(selectedInstruction')) + 1
      ]_vars

\* C5, amended: a change of the detail view to open-for-r adds exactly 1 to
\* the count of r when it is made by selectRecord, and leaves UsageStats as
\* it was when it is made by back/forward navigation or by a page load: a
\* page loaded at a deep link shows the record with the counts as stored.
C5_OnlySelectCounts ==
    [][ /\ (selectedInstruction' # 0 /\ selectedInstruction' # selectedInstruction) =>
              \/ /\ event' = UserEvent("handleSelectInstruction", selectedInstruction')
                 /\ Count(usageStats', FileOf(selectedInstruction'))
                        = Count(usageStats, FileOf(selectedInstruction')) + 1
              \/ /\ event'.kind \in {"popstate", "load"}
                 /\ usageStats' = usageStats
        /\ (event'.kind = "load" /\ selectedInstruction' # 0) =>
              /\ usageStats' = storage.instructionUsageStats
              /\ storage'.instructionUsageStats = storage.instructionUsageStats
      ]_vars

\* C5 witness: record 22 was opened by a click and, after Back, opened
\* again by Forward; its count is that of the click alone.
C5_Witness ==
    /\ event.kind = "popstate"
    /\ selectedInstruction = 22
    /\ index = Len(entries)
    /\ Count(usageStats, FileOf(22)) = 1

\* C6: no usage count ever decreases, in memory or in storage, and no entry
\* disappears; the counts are positive integers; a reload starts from the
\* stored map.
C6_UsageNeverDecreases ==
    [][ /\ \A f \in DOMAIN usageStats :
              f \in DOMAIN usageStats' /\ usageStats'[f] >= usageStats[f]
        /\ \A f \in DOMAIN storage.instructionUsageStats :
              /\ f \in DOMAIN storage'.instructionUsageStats
              /\ storage'.instructionUsageStats[f] >= storage.instructionUsageStats[f]
        /\ \A f \in DOMAIN usageStats' : usageStats'[f] \in Nat \ {0}
        /\ \A f \in DOMAIN storage'.instructionUsageStats :
              storage'.instructionUsageStats[f] \in Nat \ {0}
        /\ event'.kind = "load" => usageStats' = storage.instructionUsageStats
      ]_vars

\* C6 witness: the page was loaded again and a count made before is there.
C6_Witness ==
    /\ event.kind = "load"
    /\ Count(usageStats, FileOf(22)) = 1
    /\ Count(storage.instructionUsageStats, FileOf(22)) = 1

\* C7: toggleFavorite(r) removes r.filename when it is a favourite and
\* appends it otherwise, keeping the other favourites and their order; done
\* twice in a row it restores the membership of r.filename; no other
\* filename's membership changes.
C7_ToggleFavorite ==
    [][ \A i \in Clicked :
            event' = UserEvent("handleToggleFavorite", i) =>
                LET f == FileOf(i)
                    twice == handleToggleFavorite(handleToggleFavorite(World, i), i)
                IN  /\ f \in Range(favoriteInstructions) =>
                          /\ f \notin Range(favoriteInstructions')
                          /\ favoriteInstructions' =
                                SelectSeq(favoriteInstructions, LAMBDA g : g # f)
                    /\ f \notin Range(favoriteInstructions) =>
                          favoriteInstructions' = Append(favoriteInstructions, f)
                    /\ Range(favoriteInstructions') \ {f} =
                          Range(favoriteInstructions) \ {f}
                    /\ Range(twice.favoriteInstructions) = Range(favoriteInstructions)
      ]_vars

\* C7 witness: record 22 was removed from the favourites and record 2,
\* bookmarked before it, stayed.
C7_Witness ==
    /\ event = UserEvent("handleToggleFavorite", 22)
    /\ favoriteInstructions = <<FileOf(2)>>

\* C8: the favourites list holds no filename twice, in memory and in
\* storage.
C8_NoDuplicateFavorites ==
    /\ NoDuplicates(favoriteInstructions)
    /\ NoDuplicates(storage.favoriteInstructions)

\* C8 witness: two favourites were bookmarked and the page loaded again.
C8_Witness ==
    /\ Len(favoriteInstructions) = 2
    /\ event.kind = "load"

\* The value of the URL's tags parameter for a selection of tags: their
\* comma-join, and no parameter for the empty selection.
TagsParamOf(tags) == IF Len(tags) > 0 THEN <<Join(tags)>> ELSE << >>

\* C11: after a tag toggle and its effects, the URL's tags parameter is the
\* comma-join of selectedTags in selection order when a tag is selected,
\* and is absent when none is.
C11_UrlCarriesTags ==
    [][ event'.kind = "handleTagToggle" =>
            entries'[index'].tags = TagsParamOf(selectedTags')
      ]_vars

\* C11 witness: two tags were toggled on, the favourites tag last, and the
\* URL carries both in that order.
C11_Witness ==
    /\ event.kind = "handleTagToggle"
    /\ selectedTags = << <<"r", "e">>, Favorites >>
    /\ entries[index].tags =
          << <<"r", "e", ",", "f", "a", "v", "o", "r", "i", "t", "e", "s">> >>

\* The tag list a URL carries: the pieces of its tags parameter, and the
\* empty list when it has none.
TagsCarried(url) == IF url.tags = << >> THEN << >> ELSE Split(url.tags[1])

\* C12: after a back or forward navigation, once the popstate listeners and
\* the effects have run, selectedTags is the tag list the now-current URL
\* carries (empty when it has no tags parameter).
C12_PopStateRestoresTags ==
    event.kind = "popstate" => selectedTags = TagsCarried(entries[index])

C15_NoRepeatedEntry ==
    \A i \in 1..(Len(entries) - 1) : entries[i] # entries[i + 1]

\* C15 witness: Back closed the detail view; the modal URL effect ran for
\* the changed selection, computed the URL that is current already and
\* pushed nothing, so the entry ahead is still there.
C15_Witness ==
    /\ event = PopStateEvent
    /\ selectedInstruction = 0
    /\ index = 1 /\ Len(entries) = 2
    /\ entries[2].instruction # << >>

\* A URL whose instruction parameter names no record of the catalogue.
DeadLink(url) ==
    /\ url.instruction # << >>
    /\ \A i \in 1..Len(instructions) :
          url.instruction # <<encodeURIComponent(FileOf(i))>>

\* The application loaded at the URL without its instruction parameter.
LoadedWithoutInstruction(url) ==
    Mount(InitialState(storage, <<[url EXCEPT !.instruction = << >>]>>, 1,
                       prefersDark))

\* C16: a page load at a URL whose instruction parameter names no record
\* opens no detail view, reaches no error state and leaves the usage
\* counts, the favourites and the filter as a load without the parameter
\* gives them; a back or forward navigation to such a URL reaches no error
\* state and changes none of them.
C16_DeadLinkIsNoOp ==
    /\ [] ( (event.kind = "load" /\ DeadLink(event.url[1])) =>
                LET plain == LoadedWithoutInstruction(event.url[1])
                IN  /\ ~error
                    /\ selectedInstruction = 0
                    /\ usageStats = plain.usageStats
                    /\ favoriteInstructions = plain.favoriteInstructions
                    /\ searchQuery = plain.searchQuery
                    /\ selectedTags = plain.selectedTags
                    /\ selectedCategory = plain.selectedCategory )
    /\ [][ (event' = PopStateEvent /\ DeadLink(entries'[index'])) =>
                /\ ~error'
                /\ UNCHANGED <<selectedInstruction, usageStats, favoriteInstructions,
                               searchQuery, selectedTags, selectedCategory>>
         ]_vars

\* C17: after a page load at a URL with category=c, selectedCategory is c
\* and the visible list is the first PAGE_SIZE records of the category when
\* some record has category c, and selectedCategory is unset when none has;
\* a popstate event never changes selectedCategory.
C17_CategoryLink ==
    /\ [] ( (event.kind = "load" /\ event.url[1].category # << >>) =>
                LET c == event.url[1].category[1]
                IN  IF groupedInstructions(c) # << >>
                    THEN /\ ~error
                         /\ selectedCategory = c
                         /\ visibleInstructions =
                               Slice(groupedInstructions(c), 0, PAGE_SIZE)
                    ELSE /\ ~error
                         /\ selectedCategory = << >> )
    /\ [][ event' = PopStateEvent => selectedCategory' = selectedCategory ]_vars

C19_DefensiveReads ==
    event.kind = "load" =>
        /\ ~error
        /\ "instructionUsageStats" \in storage.corrupt => usageStats = << >>
        /\ "toolUsageStats" \in storage.corrupt => toolUsageStats = << >>
        /\ "favoriteInstructions" \in storage.corrupt => favoriteInstructions = << >>

\* C20: the initial dark mode is the stored flag when one is stored, and
\* the OS-level preference when none is stored or the stored text is not a
\* flag.
C20_DarkModeDefault ==
    (event.kind = "load" /\ ~error) =>
        CASE storage.darkMode = <<"true">> -> isDarkMode
          [] storage.darkMode = <<"false">> -> ~isDarkMode
          [] OTHER -> isDarkMode = prefersDark

\* The place of the first appearance of a tag in the catalogue.
FirstAppearance(records, tag) ==
    LET flat == FlatMapTags(records)
    IN  CHOOSE i \in 1..Len(flat) :
            flat[i] = tag /\ \A j \in 1..(i - 1) : flat[j] # tag

\* C21: for every tag on any record, tagCounts holds the number of records
\* whose tags contain it, allTags holds it exactly once, and sortedTags is
\* in descending order of count with ties in order of first appearance.
C21_TagIndex ==
    (call.fn = "tagIndex" /\ call.result # << >>) =>
        LET records == call.records
            built == call.result[1]
            tags == Range(FlatMapTags(records))
        IN  /\ \A t \in tags :
                  /\ t \in DOMAIN built.tagCounts
                  /\ built.tagCounts[t] = TaggedWith(records, t)
                  /\ Cardinality({i \in 1..Len(built.allTags) :
                                     built.allTags[i] = t}) = 1
            /\ Range(built.sortedTags) = tags
            /\ \A i, j \in 1..Len(built.sortedTags) :
                  i < j =>
                      LET a == built.sortedTags[i]
                          b == built.sortedTags[j]
                      IN  \/ TaggedWith(records, a) > TaggedWith(records, b)
                          \/ /\ TaggedWith(records, a) = TaggedWith(records, b)
                             /\ FirstAppearance(records, a) < FirstAppearance(records, b)

\* The body holds the keyword, in any case, as a whole word: an occurrence
\* with no letter, digit or underscore right before it or right after it.
WholeWordIn(keyword, body) ==
    LET n == Len(keyword)
    IN  \E at \in 1..(Len(body) - n + 1) :
            /\ \A k \in 1..n :
                  Canonicalize(body[at + k - 1]) = Canonicalize(keyword[k])
            /\ at = 1 \/ ~IsWordChar(body[at - 1])
            /\ at + n > Len(body) \/ ~IsWordChar(body[at + n])

\* C22: the tags of a file contain its category, its subcategories and its
\* front-matter tags, and a keyword of the fixed lists is among them exactly
\* when the body holds it as a whole word, whatever the case.
C22_IndexerTags ==
    (call.fn = "deriveTags" /\ call.result # << >>) =>
        LET tags == call.result[1]
        IN  /\ ArrayIncludes(tags, call.category)
            /\ \A t \in Range(call.subcategories) : ArrayIncludes(tags, t)
            /\ \A t \in Range(FrontMatterTags(call.data)) : ArrayIncludes(tags, t)
            /\ \A k \in 1..Len(Keywords) :
                  ArrayIncludes(tags, Keywords[k]) <=> WholeWordIn(Keywords[k], call.body)

\* C23: the walk never goes past an entry for which a call throws: the run
\* then ends as failed and the output file is left as it was.  A run with
\* no failure writes exactly one record per .md file, latest first.
C23_FailFast ==
    call.fn = "generateInstructionData" =>
        LET md == {k \in 1..Len(call.entries) : call.entries[k].kind = "md"}
            records == call.output.records
        IN  /\ \A k \in 1..(call.pos - 1) : ~Throws(call.entries[k])
            /\ call.status # "done" => ~call.output.written
            /\ call.status = "done" =>
                  /\ call.output.written
                  /\ \A k \in 1..Len(call.entries) : ~Throws(call.entries[k])
                  /\ {records[n].file : n \in 1..Len(records)} = md
                  /\ Len(records) = Cardinality(md)
                  /\ \A m, n \in 1..Len(records) :
                        m < n => records[m].lastUpdated >= records[n].lastUpdated

\* C23 witness: a record was collected before a later file made the parser
\* throw; the run has failed and nothing was written.
C23_Witness ==
    /\ call.fn = "generateInstructionData"
    /\ call.status = "failed"
    /\ call.allInstructions # << >>
    /\ call.entries[call.pos].fault = "matter"
    /\ ~call.output.written

\* C24: a run of fetchReferences is not ended by the failure of a link;
\* once it has completed every link has a stored entry; and no fetch is
\* issued for a link that has a stored entry.
C24_ReferencesCached ==
    /\ [](call.fn = "fetchReferences" =>
             /\ call.status # "rejected"
             /\ call.status = "completed" =>
                   \A u \in Range(call.references) : u \in DOMAIN call.stored)
    /\ [][call.fn = "fetchReferences" =>
              \A u \in call'.issued \ call.issued : u \notin DOMAIN call.stored]_vars

\* C25: an input does not change searchQuery when it is entered, and a
\* timer that expires sets searchQuery to the latest input: an input that
\* was followed by another one before its timer expired is never applied.
C25_SearchDebounced ==
    [][ /\ (event'.kind = "onSearch" /\ call' # call) => searchQuery' = searchQuery
        /\ (event'.kind = "handleSearch" /\ call' # call) =>
              <<searchQuery'>> = call.last
      ]_vars

\* The count of tool T went up by one, no other count changed, and the new
\* map is what is stored.
CountedOnce(T) ==
    /\ toolUsageStats' = Put(toolUsageStats, T, Count(toolUsageStats, T) + 1)
    /\ storage'.toolUsageStats = toolUsageStats'

\* C26: a start-conversation action for a tool, and a quick action, each
\* raise the usage count of one tool by exactly one, leave the other counts
\* as they were, and store the new map.
C26_ToolUsageCounted ==
    [][ (event'.kind \in {"handleStartConversation", "handleQuickAction"}
           /\ event' # event) =>
            \E T \in Websites : CountedOnce(T)
      ]_vars

\* C27: while a category is selected, every visible record is of that
\* category, and the visible records are the first page * PAGE_SIZE records
\* of the category's group.
C27_CategoryDrillDown ==
    (~error /\ selectedCategory # << >>) =>
        /\ \A k \in 1..Len(visibleInstructions) :
              CategoryOf(visibleInstructions[k]) = selectedCategory
        /\ visibleInstructions =
              Slice(groupedInstructions(selectedCategory), 0, page * PAGE_SIZE)

\* C28: while "favorites" is not a selected tag, toggleFavorite and the
\* effects after it leave page, visibleInstructions, hasMore,
\* selectedCategory, the open record and the usage counts as they were.
C28_ToggleFavoriteFrame ==
    [][ (event'.kind = "handleToggleFavorite" /\ event' # event
           /\ ~ArrayIncludes(selectedTags, Favorites)) =>
            /\ page' = page
            /\ visibleInstructions' = visibleInstructions
            /\ hasMore' = hasMore
            /\ selectedCategory' = selectedCategory
            /\ selectedInstruction' = selectedInstruction
            /\ usageStats' = usageStats
            /\ storage'.instructionUsageStats = storage.instructionUsageStats
      ]_vars

\* C29: once the page loaded at the link of a record has run its mount
\* effects, the record is open and the session history is still the single
\* entry the page was loaded with.
C29_DeepLinkPushesNothing ==
    (event.kind = "load" /\ ~error
       /\ Get(event.url[1].instruction) # << >>
       /\ Find(decodeURIComponent(Get(event.url[1].instruction))) # 0) =>
        /\ selectedInstruction = Find(decodeURIComponent(Get(event.url[1].instruction)))
        /\ entries = event.url
        /\ index = 1

\* C30: with two tabs on one storage no stored count ever decreases, and
\* the stored count of a filename has grown by the number of times a record
\* of that name was selected, in either tab.
C30_TwoTabs ==
    /\ [](call.fn = "tabs" =>
             \A f \in Opened :
                 Count(storage.instructionUsageStats, f)
                     = Count(call.before, f) + call.selects[f])
    /\ [][call.fn = "tabs" =>
              \A f \in Opened :
                  Count(storage'.instructionUsageStats, f)
                      >= Count(storage.instructionUsageStats, f)]_vars

=============================================================================
